---- MODULE Spec2Model ----
(***************************************************************************)
(* Model of l0pca/bunch/rank_one_update.py: the rank-one update plan of a  *)
(* covariance eigendecomposition (create_update_append_column) and the     *)
(* secular ("Bunch") rational function: its numerator terms, denominator   *)
(* terms and Taylor series.                                                *)
(*                                                                         *)
(* Numbers are exact: a finite value is a normalised fraction, the         *)
(* non-finite values of IEEE arithmetic (NaN, +Inf, -Inf) are kept, and the*)
(* square root of a fraction that is no perfect square is kept as a surd.  *)
(* Floating-point rounding is not modelled.                                *)
(*                                                                         *)
(* Tensors are records [shape, data, raised]: the shape, the elements in   *)
(* row-major order, and whether the operation that should have produced    *)
(* the tensor raised an exception instead.                                 *)
(***************************************************************************)
EXTENDS Integers, Sequences, FiniteSets, TLC

(***************************************************************************)
(* Exact numbers.                                                          *)
(***************************************************************************)
Abs(x) == IF x < 0 THEN -x ELSE x

RECURSIVE Gcd(_, _)
Gcd(a, b) == IF b = 0 THEN a ELSE Gcd(b, a % b)

\* A value: root = 1 is num/den (den = 0: NaN, +Inf, -Inf by the sign of
\* num); root = 2 is the positive square root of num/den, num/den > 0 and not
\* the square of a fraction.
Val(n, d, r) == [num |-> n, den |-> d, root |-> r]

Frac(n, d) ==
    IF d = 0 THEN Val(IF n > 0 THEN 1 ELSE IF n < 0 THEN -1 ELSE 0, 0, 1)
    ELSE LET g == Gcd(Abs(n), Abs(d))
             s == IF d < 0 THEN -1 ELSE 1
         IN Val(s * (n \div g), s * (d \div g), 1)

Whole(n) == Frac(n, 1)
NaN == Val(0, 0, 1)
PosInf == Val(1, 0, 1)
NegInf == Val(-1, 0, 1)

IsNaN(x) == x.den = 0 /\ x.num = 0
IsFinite(x) == x.den # 0
IsPlain(x) == x.root = 1
Sign(x) == IF x.num > 0 THEN 1 ELSE IF x.num < 0 THEN -1 ELSE 0

\* Floating-point addition on plain values: NaN propagates, Inf - Inf is NaN.
RAdd(x, y) ==
    IF ~IsPlain(x) \/ ~IsPlain(y) THEN NaN
    ELSE IF IsNaN(x) \/ IsNaN(y) THEN NaN
    ELSE IF x.den = 0 /\ y.den = 0 THEN (IF x.num = y.num THEN x ELSE NaN)
    ELSE IF x.den = 0 THEN x
    ELSE IF y.den = 0 THEN y
    ELSE LET g == Gcd(x.den, y.den)
         IN Frac(x.num * (y.den \div g) + y.num * (x.den \div g),
                 (x.den \div g) * y.den)

RNeg(x) == Val(-x.num, x.den, x.root)

RSub(x, y) == RAdd(x, RNeg(y))

\* Multiplication: 0 * Inf is NaN. A surd times itself is its radicand.
RMul(x, y) ==
    IF ~IsPlain(x) \/ ~IsPlain(y)
    THEN (IF x = y THEN Frac(x.num, x.den) ELSE NaN)
    ELSE IF IsNaN(x) \/ IsNaN(y) THEN NaN
    ELSE IF x.den = 0 \/ y.den = 0
    THEN (IF Sign(x) * Sign(y) = 0 THEN NaN ELSE Frac(Sign(x) * Sign(y), 0))
    ELSE LET g1 == Gcd(Abs(x.num), y.den)
             g2 == Gcd(Abs(y.num), x.den)
         IN Frac((x.num \div g1) * (y.num \div g2),
                 (x.den \div g2) * (y.den \div g1))

\* Division: x / 0 is +-Inf (positive zero), 0 / 0 and Inf / Inf are NaN.
RDiv(x, y) ==
    IF ~IsPlain(x) \/ ~IsPlain(y) THEN NaN
    ELSE IF IsNaN(x) \/ IsNaN(y) THEN NaN
    ELSE IF y.den = 0 THEN (IF x.den = 0 THEN NaN ELSE Whole(0))
    ELSE IF x.den = 0 THEN Frac(Sign(x) * (IF Sign(y) < 0 THEN -1 ELSE 1), 0)
    ELSE IF y.num = 0 THEN Frac(Sign(x), 0)
    ELSE Frac(x.num * y.den, x.den * y.num)

RECURSIVE RPowNat(_, _)
RPowNat(x, e) == IF e = 0 THEN Whole(1) ELSE RMul(x, RPowNat(x, e - 1))

\* tf.math.pow and ** with an integral exponent; a surd squared is its
\* radicand.
RPow(x, e) ==
    IF ~IsPlain(x)
    THEN (IF e = 2 THEN Frac(x.num, x.den) ELSE NaN)
    ELSE IF e >= 0 THEN RPowNat(x, e)
    ELSE RDiv(Whole(1), RPowNat(x, -e))

RLess(x, y) == IsFinite(x) /\ IsFinite(y) /\ IsPlain(x) /\ IsPlain(y)
               /\ x.num * y.den < y.num * x.den

\* The integer square root.
ISqrt(n) == CHOOSE k \in 0..n : k * k <= n /\ (k + 1) * (k + 1) > n

IsSquare(n) == ISqrt(n) * ISqrt(n) = n

\* A square root that clamps a negative argument to zero.
RSqrt_Clamped(x) ==
    IF ~IsPlain(x) \/ IsNaN(x) THEN NaN
    ELSE IF x.den = 0 THEN (IF x.num > 0 THEN PosInf ELSE NaN)
    ELSE IF x.num < 0 THEN Whole(0)
    ELSE IF IsSquare(x.num) /\ IsSquare(x.den)
    THEN Frac(ISqrt(x.num), ISqrt(x.den))
    ELSE Val(x.num, x.den, 2)

\* tf.math.sqrt: NaN below zero, exact on squares of fractions, a surd
\* otherwise.
RSqrt(x) ==
    IF ~IsPlain(x) \/ IsNaN(x) THEN NaN
    ELSE IF x.den = 0 THEN (IF x.num > 0 THEN PosInf ELSE NaN)
    ELSE IF x.num < 0 THEN NaN
    ELSE IF IsSquare(x.num) /\ IsSquare(x.den)
    THEN Frac(ISqrt(x.num), ISqrt(x.den))
    ELSE Val(x.num, x.den, 2)

(***************************************************************************)
(* Tensors.                                                                *)
(***************************************************************************)
Tensor(tshape, tdata) == [shape |-> tshape, data |-> tdata, raised |-> FALSE]

\* The outcome of an operation that raised an exception.
Raised == [shape |-> <<>>, data |-> <<>>, raised |-> TRUE]

Rank(t) == Len(t.shape)

RECURSIVE Size(_)
Size(s) == IF s = <<>> THEN 1 ELSE s[1] * Size(Tail(s))

\* The coordinates (from 0) of the k-th element (from 0) in row-major
\* order, and back.
Unravel(ushape, off) ==
    [i \in 1..Len(ushape) |->
        (off \div Size(SubSeq(ushape, i + 1, Len(ushape)))) % ushape[i]]

RECURSIVE RavelFrom(_, _, _)
RavelFrom(rshape, pos, i) ==
    IF i > Len(rshape) THEN 0
    ELSE pos[i] * Size(SubSeq(rshape, i + 1, Len(rshape)))
         + RavelFrom(rshape, pos, i + 1)

Ravel(rshape, pos) == RavelFrom(rshape, pos, 1)

At(tensor, coords) == tensor.data[Ravel(tensor.shape, coords) + 1]

Build(bshape, F(_)) ==
    Tensor(bshape, [n \in 1..Size(bshape) |-> F(Unravel(bshape, n - 1))])

Scalar(x) == Tensor(<<>>, <<x>>)

Vec(xs) == Tensor(<<Len(xs)>>, xs)

\* Stack equally shaped tensors along a new leading axis.
RECURSIVE FlatData(_)
FlatData(ts) == IF ts = <<>> THEN <<>> ELSE ts[1].data \o FlatData(Tail(ts))

Stack(ts) == Tensor(<<Len(ts)>> \o ts[1].shape, FlatData(ts))

\* t[b]: the b-th (from 0) slice along the leading axis.
Slice0(t, b) ==
    LET s == Tail(t.shape)
    IN Tensor(s, SubSeq(t.data, b * Size(s) + 1, (b + 1) * Size(s)))

Max(a, b) == IF a > b THEN a ELSE b

\* Two shapes broadcast when, aligned at the right, each pair of lengths is
\* equal or holds a 1.
PadShape(s, n) == [i \in 1..n |-> IF i <= n - Len(s) THEN 1 ELSE s[i - (n - Len(s))]]

Broadcastable(s1, s2) ==
    LET n == Max(Len(s1), Len(s2))
        a == PadShape(s1, n)
        b == PadShape(s2, n)
    IN \A i \in 1..n : a[i] = b[i] \/ a[i] = 1 \/ b[i] = 1

BroadcastShape(s1, s2) ==
    LET n == Max(Len(s1), Len(s2))
        a == PadShape(s1, n)
        b == PadShape(s2, n)
    IN [i \in 1..n |-> IF a[i] = 1 THEN b[i] ELSE a[i]]

\* The coordinates in an operand of shape s of the element that is
\* broadcast to the coordinates idx of the result.
BIdx(oshape, rpos) ==
    LET shift == Len(rpos) - Len(oshape)
    IN [i \in 1..Len(oshape) |-> IF oshape[i] = 1 THEN 0 ELSE rpos[i + shift]]

\* An elementwise binary operation with broadcasting; incompatible shapes
\* raise.
Elementwise(Op(_, _), a, b) ==
    IF a.raised \/ b.raised THEN Raised
    ELSE IF ~Broadcastable(a.shape, b.shape) THEN Raised
    ELSE LET s == BroadcastShape(a.shape, b.shape)
         IN Build(s, LAMBDA idx :
                Op(At(a, BIdx(a.shape, idx)), At(b, BIdx(b.shape, idx))))

Map(Op(_), a) ==
    IF a.raised THEN Raised
    ELSE Tensor(a.shape, [k \in 1..Len(a.data) |-> Op(a.data[k])])

\* tf.expand_dims(t, axis): a new axis of length 1; a negative axis counts
\* from the end of the result.
ExpandDims(t, axis) ==
    IF t.raised THEN Raised
    ELSE LET p == IF axis >= 0 THEN axis ELSE Rank(t) + 1 + axis
         IN [t EXCEPT !.shape =
                SubSeq(t.shape, 1, p) \o <<1>> \o SubSeq(t.shape, p + 1, Rank(t))]

\* t[..., None]
NewLastAxis(t) == ExpandDims(t, -1)

\* tf.math.reduce_sum(t, axis) for a negative axis.
RECURSIVE SumSeq(_)
SumSeq(xs) == IF xs = <<>> THEN Whole(0) ELSE RAdd(xs[1], SumSeq(Tail(xs)))

ReduceSum(t, axis) ==
    IF t.raised THEN Raised
    ELSE LET p == Rank(t) + 1 + axis
             s == SubSeq(t.shape, 1, p - 1) \o SubSeq(t.shape, p + 1, Rank(t))
         IN Build(s, LAMBDA idx :
                SumSeq([j \in 1..t.shape[p] |->
                    At(t, SubSeq(idx, 1, p - 1) \o <<j - 1>>
                          \o SubSeq(idx, p, Len(idx)))]))

\* tf.concat([a, b], axis=-1): every axis but the last must agree.
ConcatLast(a, b) ==
    IF a.raised \/ b.raised THEN Raised
    ELSE IF Rank(a) # Rank(b) \/ Rank(a) = 0 THEN Raised
    ELSE IF SubSeq(a.shape, 1, Rank(a) - 1) # SubSeq(b.shape, 1, Rank(b) - 1)
    THEN Raised
    ELSE LET r == Rank(a)
             na == a.shape[r]
             s == SubSeq(a.shape, 1, r - 1) \o <<na + b.shape[r]>>
         IN Build(s, LAMBDA idx :
                IF idx[r] < na THEN At(a, idx)
                ELSE At(b, SubSeq(idx, 1, r - 1) \o <<idx[r] - na>>))

\* t[..., k, :]: index the axis before the last.
IndexSecondLast(t, k) ==
    IF t.raised \/ Rank(t) < 2 THEN Raised
    ELSE LET r == Rank(t)
             s == SubSeq(t.shape, 1, r - 2) \o <<t.shape[r]>>
         IN IF k < 0 \/ k >= t.shape[r - 1] THEN Raised
            ELSE Build(s, LAMBDA idx :
                    At(t, SubSeq(idx, 1, r - 2) \o <<k, idx[r - 1]>>))

\* t[..., :, 0]: the first element along the last axis.
IndexLastZero(t) ==
    IF t.raised \/ Rank(t) < 1 THEN Raised
    ELSE Build(SubSeq(t.shape, 1, Rank(t) - 1), LAMBDA idx : At(t, idx \o <<0>>))

\* t[k] on a vector.
IndexVec(t, k) ==
    IF t.raised \/ Rank(t) # 1 THEN Raised
    ELSE IF k < 0 \/ k >= t.shape[1] THEN Raised
    ELSE Scalar(t.data[k + 1])

\* tf.gather(params, indices) with its default axis, 0: the result has the
\* shape of indices followed by params.shape[1:], and holds
\* params[indices[i], ...]. An index out of bounds raises on a CPU and
\* stores 0 on a GPU.
Gather(params, indices, device) ==
    IF params.raised \/ indices.raised \/ Rank(params) < 1 THEN Raised
    ELSE LET ri == Rank(indices)
             s == indices.shape \o Tail(params.shape)
             InBounds(k) == k >= 0 /\ k < params.shape[1]
         IN IF device = "CPU" /\ \E k \in 1..Len(indices.data) :
                                    ~InBounds(indices.data[k])
            THEN Raised
            ELSE Build(s, LAMBDA idx :
                    LET k == At(indices, SubSeq(idx, 1, ri))
                    IN IF InBounds(k)
                       THEN At(params, <<k>> \o SubSeq(idx, ri + 1, Len(idx)))
                       ELSE Whole(0))

\* tf.linalg.matmul(a, b): the product of the matrices in the last two
\* axes, the leading (batch) axes broadcast.
MatMul(a, b) ==
    IF a.raised \/ b.raised \/ Rank(a) < 2 \/ Rank(b) < 2 THEN Raised
    ELSE LET ra == Rank(a)
             rb == Rank(b)
             ba == SubSeq(a.shape, 1, ra - 2)
             bb == SubSeq(b.shape, 1, rb - 2)
             inner == a.shape[ra]
         IN IF inner # b.shape[rb - 1] \/ ~Broadcastable(ba, bb) THEN Raised
            ELSE LET bs == BroadcastShape(ba, bb)
                     nb == Len(bs)
                 IN Build(bs \o <<a.shape[ra - 1], b.shape[rb]>>, LAMBDA idx :
                        SumSeq([j \in 1..inner |->
                            RMul(At(a, BIdx(ba, SubSeq(idx, 1, nb))
                                       \o <<idx[nb + 1], j - 1>>),
                                 At(b, BIdx(bb, SubSeq(idx, 1, nb))
                                       \o <<j - 1, idx[nb + 2]>>))]))

\* tf.linalg.norm(t, axis=-1): the L2 norm along the last axis.
NormLast(t) ==
    Map(RSqrt, ReduceSum(Map(LAMBDA x : RMul(x, x), t), -1))

(***************************************************************************)
(* l0pca.util.batch_matrices: the two helpers the module calls.            *)
(***************************************************************************)
\* batch_matrices.transpose: the last two axes exchanged.
Transpose(t) ==
    IF t.raised \/ Rank(t) < 2 THEN Raised
    ELSE LET r == Rank(t)
             s == SubSeq(t.shape, 1, r - 2) \o <<t.shape[r], t.shape[r - 1]>>
         IN Build(s, LAMBDA idx :
                At(t, SubSeq(idx, 1, r - 2) \o <<idx[r], idx[r - 1]>>))

\* batch_matrices.expand_dim_times(t, axis, times): `times` axes of length 1
\* inserted at `axis`, none when times <= 0.
RECURSIVE ExpandDimTimes(_, _, _)
ExpandDimTimes(t, axis, times) ==
    IF times <= 0 THEN t
    ELSE ExpandDimTimes(ExpandDims(t, axis), axis, times - 1)

(***************************************************************************)
(* create_update_append_column                                             *)
(***************************************************************************)
\* cov[..., append_column_index, :]
CovSlice(a) == IndexSecondLast(a.cov, a.append_column_index)

\* cov_lookup = tf.gather(cov_slice, eig_column_indices)
CovLookup(a) == Gather(CovSlice(a), a.eig_column_indices, a.device)

\* The projection without the division by S.
ProjectedUpdate_NotDivided(a) ==
    IndexLastZero(MatMul(Transpose(a.eigenvectors), NewLastAxis(CovLookup(a))))

\* update_vec before the residual is prepended: the cross-covariance in the
\* eigenbasis, divided by S.
ProjectedUpdate(a) ==
    LET update_vec == IndexLastZero(
            MatMul(Transpose(a.eigenvectors), NewLastAxis(CovLookup(a))))
    IN Elementwise(RDiv, update_vec, a.S)

\* The variance with num_row in place of num_row - 1.
ColumnVariance_ByNumRow(a) ==
    Map(LAMBDA x : RDiv(RPow(x, 2), Whole(a.num_row)),
        IndexVec(a.column_norms, a.append_column_index))

\* column_norms[append_column_index] ** 2 / (num_row - 1)
ColumnVariance(a) ==
    Map(LAMBDA x : RDiv(RPow(x, 2), Whole(a.num_row - 1)),
        IndexVec(a.column_norms, a.append_column_index))

\* The argument of tf.math.sqrt.
Radicand(a) ==
    Elementwise(RSub, ColumnVariance(a),
                Map(LAMBDA x : RPow(x, 2), NormLast(ProjectedUpdate(a))))

create_update_append_column(a) ==
    LET update_ortho == Map(RSqrt, Radicand(a))
    IN ConcatLast(NewLastAxis(update_ortho), ProjectedUpdate(a))

(***************************************************************************)
(* The secular function.                                                   *)
(***************************************************************************)
bunch_rational_function_numerator(update_vec, batch_dims) ==
    ExpandDimTimes(Map(LAMBDA x : RMul(x, x), update_vec), -2, batch_dims)

\* tf.zeros(list(batch_shape) + [1])
Zeros(s) == Build(s, LAMBDA idx : Whole(0))

\* The augmented eigenvalues with S in place of its squares.
AugEvals_NotSquared(S) ==
    ConcatLast(Zeros(SubSeq(S.shape, 1, Rank(S) - 1) \o <<1>>), S)

\* aug_evals: a zero ahead of the squares of S.
AugEvals(S) ==
    ConcatLast(Zeros(SubSeq(S.shape, 1, Rank(S) - 1) \o <<1>>),
               Map(LAMBDA x : RMul(x, x), S))

\* (norm = tf.linalg.norm(update_vec) is computed and never used.)
bunch_rational_function_denominator(update_vec, S, mu_estimate) ==
    LET batch_dims == Rank(S) - 1
        num_mu_outer_product == Rank(mu_estimate) - batch_dims
        aug_evals == ExpandDimTimes(AugEvals(S), batch_dims, num_mu_outer_product)
    IN Elementwise(RSub, aug_evals, NewLastAxis(mu_estimate))

\* tf.range(min_order, min_order + num_order)
OrderRange(min_order, num_order) ==
    [j \in 1..num_order |-> min_order + j - 1]

\* The exponent without the + 1.
NegOrder(order) == [j \in 1..Len(order) |-> -order[j]]

\* -(order + 1)
NegOrderPlusOne(order) == [j \in 1..Len(order) |-> -(order[j] + 1)]

\* The constant term added to the first entry, whatever its order.
OrderIsZero_First(order) ==
    Vec([j \in 1..Len(order) |-> IF j = 1 THEN Whole(1) ELSE Whole(0)])

\* The constant term left out.
OrderIsZero_Never(order) ==
    Vec([j \in 1..Len(order) |-> Whole(0)])

\* result += tf.cast(order == 0., result.dtype)
OrderIsZero(order) ==
    Vec([j \in 1..Len(order) |-> IF order[j] = 0 THEN Whole(1) ELSE Whole(0)])

bunch_rational_function_taylor_series(update_vec, S, mu_estimate, min_order, num_order) ==
    LET order == OrderRange(min_order, num_order)
        batch_dims == Rank(update_vec) - 1
        numer == bunch_rational_function_numerator(update_vec, batch_dims)
        \* -(order + 1)[orders_slice]
        exponent == Tensor([i \in 1..(Rank(numer) + 1) |->
                               IF i <= Rank(numer) THEN 1 ELSE num_order],
                           NegOrderPlusOne(order))
        denom == bunch_rational_function_denominator(update_vec, S, mu_estimate)
        result == Elementwise(RMul, NewLastAxis(numer),
                              Elementwise(RPow, NewLastAxis(denom), exponent))
    IN Elementwise(RAdd, ReduceSum(result, -2), OrderIsZero(order))

(***************************************************************************)
(* The calls: one call is drawn at the start, and the action of the called *)
(* function computes its result.                                           *)
(***************************************************************************)
VARIABLES fn, args, ret, pc

vars == <<fn, args, ret, pc>>

\* Bounds of the inputs.
MaxN == 2
MaxBatch == 2

\* No result yet.
NoTensor == Tensor(<<0>>, <<>>)

\* The n entries of a ladder from its k-th (from 0), cyclically.
Window(ladder, k, n) ==
    [i \in 1..n |-> ladder[((k + i - 1) % Len(ladder)) + 1]]

\* ---- inputs of create_update_append_column ----
SLadders == << <<1, 3, 3, 5>>, <<2, 3, 3, 5>> >>

SChoice(N, i) ==
    Vec([j \in 1..N |-> Whole(SLadders[(i % Len(SLadders)) + 1][j])])

\* Orthonormal matrices: the identity, the reversal permutation, and the
\* rotation with cosine 3/5 and sine 4/5 in the first two coordinates
\* (the reflection -1 when N = 1).
Identity(N) == Build(<<N, N>>, LAMBDA idx :
    IF idx[1] = idx[2] THEN Whole(1) ELSE Whole(0))

Reversal(N) == Build(<<N, N>>, LAMBDA idx :
    IF idx[1] + idx[2] = N - 1 THEN Whole(1) ELSE Whole(0))

Rotation(N) == Build(<<N, N>>, LAMBDA idx :
    IF N = 1 THEN Whole(-1)
    ELSE IF idx[1] > 1 \/ idx[2] > 1
    THEN (IF idx[1] = idx[2] THEN Whole(1) ELSE Whole(0))
    ELSE IF idx[1] = idx[2] THEN Frac(3, 5)
    ELSE IF idx[1] = 0 THEN Frac(-4, 5) ELSE Frac(4, 5))

VChoice(N, i) ==
    CASE i % 3 = 0 -> Identity(N)
      [] i % 3 = 1 -> Reversal(N)
      [] OTHER -> Rotation(N)

\* The decomposed columns: every column but the appended one, ascending or
\* descending.
IdxChoice(N, a, i) ==
    LET asc == [j \in 1..N |-> IF j - 1 < a THEN j - 1 ELSE j]
    IN Tensor(<<N>>, IF i % 2 = 0 THEN asc ELSE [j \in 1..N |-> asc[N + 1 - j]])

\* The e-th element of a batch: its columns, eigenvalues and eigenvectors.
Elem(N, a, e) ==
    [idx |-> IdxChoice(N, a, e), S |-> SChoice(N, e \div 2),
     V |-> VChoice(N, e \div 4)]

NumElems == 2 * 2 * 3

\* The cross-covariances of the appended column with every column.
CrossLadder == <<Frac(1, 2), Frac(1, 5), Whole(1)>>

\* A symmetric covariance matrix whose row and column a hold the
\* cross-covariances.
Cov(M, a, k) ==
    LET t == Window(CrossLadder, k, M)
    IN Build(<<M, M>>, LAMBDA idx :
        IF idx[1] = a THEN t[idx[2] + 1]
        ELSE IF idx[2] = a THEN t[idx[1] + 1]
        ELSE IF idx[1] = idx[2] THEN Whole(2) ELSE Frac(1, 3))

ColumnNorms(M, a, cn) ==
    Vec([j \in 1..M |-> IF j - 1 = a THEN Whole(cn) ELSE Whole(3)])

\* (column norm, num_row)
NormChoices == {<<1, 5>>, <<1, 2>>, <<2, 2>>}

UpdateArgs(idx, S, V, a, cov, cn, num_row, device) ==
    [eig_column_indices |-> idx, S |-> S, eigenvectors |-> V,
     append_column_index |-> a, cov |-> cov, column_norms |-> cn,
     num_row |-> num_row, device |-> device]

\* One decomposition.
SingleArgs(N, a, e, k, nc) ==
    UpdateArgs(Elem(N, a, e).idx, Elem(N, a, e).S, Elem(N, a, e).V, a,
               Cov(N + 1, a, k), ColumnNorms(N + 1, a, nc[1]), nc[2], "CPU")

\* The appended column is the first or the last.
SingleUpdateArgs ==
    {SingleArgs(N, IF last THEN N ELSE 0, e, k, nc) :
        N \in 1..MaxN, last \in BOOLEAN, e \in 0..(NumElems - 1),
        k \in 0..2, nc \in NormChoices}

\* A batch of B decompositions of columns of one covariance matrix, or (cov
\* batched) of B covariance matrices.
BatchOf(N, a, e, stride, B) ==
    [b \in 1..B |-> Elem(N, a, (e + (b - 1) * stride) % NumElems)]

BatchArgs(N, a, e, stride, B, k, nc, covBatched, device) ==
    LET els == BatchOf(N, a, e, stride, B)
    IN UpdateArgs(Stack([b \in 1..B |-> els[b].idx]),
                  Stack([b \in 1..B |-> els[b].S]),
                  Stack([b \in 1..B |-> els[b].V]),
                  a,
                  IF covBatched
                  THEN Stack([b \in 1..B |-> Cov(N + 1, a, k + b - 1)])
                  ELSE Cov(N + 1, a, k),
                  ColumnNorms(N + 1, a, nc[1]), nc[2], device)

BatchUpdateArgs ==
    {BatchArgs(N, IF last THEN N ELSE 0, e, stride, B, k, nc, FALSE, "CPU") :
        N \in 1..MaxN, last \in BOOLEAN, e \in 0..(NumElems - 1),
        stride \in {1, 2}, B \in 2..MaxBatch, k \in 0..2, nc \in NormChoices}

BatchCovUpdateArgs ==
    {BatchArgs(N, IF last THEN N ELSE 0, e, stride, B, k, nc, TRUE, device) :
        N \in 1..MaxN, last \in BOOLEAN, e \in 0..(NumElems - 1),
        stride \in {1, 2}, B \in 2..MaxBatch, k \in 0..2, nc \in NormChoices,
        device \in {"CPU", "GPU"}}

InitUpdate ==
    /\ fn = "create_update_append_column"
    /\ args \in SingleUpdateArgs \union BatchUpdateArgs \union BatchCovUpdateArgs
    /\ ret = NoTensor
    /\ pc = "call"

CallCreateUpdate ==
    /\ pc = "call"
    /\ fn = "create_update_append_column"
    /\ ret' = create_update_append_column(args)
    /\ pc' = "done"
    /\ UNCHANGED <<fn, args>>

NextUpdate == CallCreateUpdate

SpecUpdate == InitUpdate /\ [][NextUpdate]_vars

\* ---- inputs of the secular function ----
MaxCand == 2
MaxOrder == 1
MaxNumOrder == 2

VLadder == <<Whole(1), Whole(1), Whole(2), Whole(-1), Whole(0)>>

UpdateVecChoice(N, k) == Vec(Window(VLadder, k, N + 1))

\* Candidates for an eigenvalue; 1 is a pole of the first ladder of S.
MuLadder == <<Whole(2), Whole(-1), Whole(1)>>

MuChoice(mshape, k) == Tensor(mshape, Window(MuLadder, k, Size(mshape)))

SecularArgs(update_vec, S, mu_estimate, min_order, num_order) ==
    [update_vec |-> update_vec, S |-> S, mu_estimate |-> mu_estimate,
     min_order |-> min_order, num_order |-> num_order]

\* One update vector, and one candidate or a vector of K candidates.
SingleSecular(N, v, i, K, k, min_order, num_order) ==
    SecularArgs(UpdateVecChoice(N, v), SChoice(N, i),
                MuChoice(IF K = 0 THEN <<>> ELSE <<K>>, k), min_order, num_order)

\* A batch of B update vectors, with one candidate or K candidates each.
BatchSecular(N, B, v, i, K, k, min_order, num_order) ==
    SecularArgs(Stack([b \in 1..B |-> UpdateVecChoice(N, v + b - 1)]),
                Stack([b \in 1..B |-> SChoice(N, i + b - 1)]),
                MuChoice(IF K = 0 THEN <<B>> ELSE <<B, K>>, k),
                min_order, num_order)

SecularInputs(minOrders, numOrders) ==
    {SingleSecular(N, v, i, K, k, mo, no) :
        N \in 1..MaxN, v \in 0..(Len(VLadder) - 1), i \in 0..1,
        K \in 0..MaxCand, k \in 0..(Len(MuLadder) - 1),
        mo \in minOrders, no \in numOrders}
    \union
    {BatchSecular(N, B, v, i, K, k, mo, no) :
        N \in 1..MaxN, B \in 2..MaxBatch, v \in 0..(Len(VLadder) - 1),
        i \in 0..1, K \in 0..MaxCand, k \in 0..(Len(MuLadder) - 1),
        mo \in minOrders, no \in numOrders}

\* The scalar test case of the interlacing property: S = [1, 4] and the
\* order-0 value at candidates on both sides of 0, 1, 4 and 16.
InterlaceGrid ==
    <<Frac(1, 8), Frac(7, 8), Frac(9, 8), Frac(31, 8), Frac(33, 8),
      Frac(127, 8), Frac(129, 8), Whole(32)>>

InterlaceS == Vec(<<Whole(1), Whole(4)>>)

InterlaceEntries == {Whole(1), Whole(2), Whole(-1), Whole(0)}

InterlaceInputs ==
    {SecularArgs(Vec(v), InterlaceS, Vec(InterlaceGrid), 0, 1) :
        v \in [1..3 -> InterlaceEntries]}

NumeratorInputs ==
    {[update_vec |-> a.update_vec, batch_dims |-> bd] :
        a \in SecularInputs({0}, {1}), bd \in 0..2}

InitSecular ==
    /\ pc = "call"
    /\ ret = NoTensor
    /\ \/ /\ fn = "bunch_rational_function_taylor_series"
          /\ args \in SecularInputs(0..MaxOrder, 1..MaxNumOrder)
                      \union InterlaceInputs
       \/ /\ fn = "bunch_rational_function_denominator"
          /\ args \in SecularInputs({0}, {1})
       \/ /\ fn = "bunch_rational_function_numerator"
          /\ args \in NumeratorInputs

CallNumerator ==
    /\ pc = "call"
    /\ fn = "bunch_rational_function_numerator"
    /\ ret' = bunch_rational_function_numerator(args.update_vec, args.batch_dims)
    /\ pc' = "done"
    /\ UNCHANGED <<fn, args>>

CallDenominator ==
    /\ pc = "call"
    /\ fn = "bunch_rational_function_denominator"
    /\ ret' = bunch_rational_function_denominator(
                  args.update_vec, args.S, args.mu_estimate)
    /\ pc' = "done"
    /\ UNCHANGED <<fn, args>>

CallTaylorSeries ==
    /\ pc = "call"
    /\ fn = "bunch_rational_function_taylor_series"
    /\ ret' = bunch_rational_function_taylor_series(
                  args.update_vec, args.S, args.mu_estimate,
                  args.min_order, args.num_order)
    /\ pc' = "done"
    /\ UNCHANGED <<fn, args>>

NextSecular == CallNumerator \/ CallDenominator \/ CallTaylorSeries

SpecSecular == InitSecular /\ [][NextSecular]_vars

Init == InitUpdate \/ InitSecular

Next == NextUpdate \/ NextSecular

Spec == Init /\ [][Next]_vars

(***************************************************************************)
(* Properties of the secular function.                                     *)
(***************************************************************************)
Returned(f) == pc = "done" /\ fn = f

\* The i-th (from 0) pole of one decomposition, by the rule P for the
\* poles that follow the zero.
PoleOf(P(_), Svec, i) == IF i = 0 THEN Whole(0) ELSE P(Svec.data[i])

Squared(x) == RMul(x, x)

Itself(x) == x

\* The number of eigenvalues of a call.
NumEig(S) == S.shape[Rank(S)]

\* The decomposition an output position belongs to: the one at its leading
\* batch coordinates.
SvecAt(S, pos) ==
    IF Rank(S) = 1 THEN S ELSE Slice0(S, pos[1])

\* Every denominator call returns, for each batch element and candidate,
\* N+1 terms: pole_i - mu, the poles being 0 followed by P of each entry of S.
DenominatorTermsAre(P(_)) ==
    Returned("bunch_rational_function_denominator") =>
        /\ ~ret.raised
        /\ ret.shape = args.mu_estimate.shape \o <<NumEig(args.S) + 1>>
        /\ \A n \in 1..Size(ret.shape) :
            LET pos == Unravel(ret.shape, n - 1)
                mupos == SubSeq(pos, 1, Len(pos) - 1)
            IN ret.data[n] =
                 RSub(PoleOf(P, SvecAt(args.S, pos), pos[Len(pos)]),
                      At(args.mu_estimate, mupos))

\* C1 (as amended): the denominator's N+1 terms are pole_i - mu where the
\* poles are a zero followed by the SQUARES of the entries of S: term 0 is
\* 0 - mu and term i is S[i-1]^2 - mu.
C1_PolesAreZeroAndSquares == DenominatorTermsAre(Squared)

\* C1 (as claimed): the poles are a zero followed by the entries of S
\* themselves: term i is S[i-1] - mu.
C1_PolesAreZeroAndS == DenominatorTermsAre(Itself)

C1_Witness ==
    /\ Returned("bunch_rational_function_denominator")
    /\ ~ret.raised
    /\ Rank(args.S) = 1
    /\ args.S.data[NumEig(args.S)] = Whole(3)
    /\ ret.data[Len(ret.data)] = RSub(Whole(9), args.mu_estimate.data[1])

\* C2 (as claimed): the Taylor series of update_vec (batch x (N+1)), S
\* (batch x N) and mu (batch x candidates) has the shape batch x candidates x
\* num_order, that is the shape of mu followed by num_order, for every
\* number of batch and of candidate dimensions.
C2_TaylorShape ==
    Returned("bunch_rational_function_taylor_series") =>
        /\ ~ret.raised
        /\ ret.shape = args.mu_estimate.shape \o <<args.num_order>>

\* No candidate of the call coincides with a pole.
NoPoleCollision ==
    LET d == bunch_rational_function_denominator(
                 args.update_vec, args.S, args.mu_estimate)
    IN ~d.raised /\ \A n \in 1..Len(d.data) : d.data[n].num # 0

\* C4: with min_order = 0 and num_order = 1 the Taylor series is
\* 1 + sum_i numerator_i / denominator_i, the terms being those the
\* numerator and the denominator functions return for the same inputs.
C4_OrderZeroIdentity ==
    (/\ Returned("bunch_rational_function_taylor_series")
     /\ args.min_order = 0
     /\ args.num_order = 1
     /\ NoPoleCollision) =>
        LET numer == bunch_rational_function_numerator(
                         args.update_vec, Rank(args.update_vec) - 1)
            denom == bunch_rational_function_denominator(
                         args.update_vec, args.S, args.mu_estimate)
        IN /\ ~ret.raised
           /\ IndexLastZero(ret) =
                Elementwise(RAdd, Scalar(Whole(1)),
                            ReduceSum(Elementwise(RDiv, numer, denom), -1))

C4_Witness ==
    /\ Returned("bunch_rational_function_taylor_series")
    /\ args.min_order = 0
    /\ args.num_order = 1
    /\ NoPoleCollision
    /\ Rank(args.mu_estimate) = 2
    /\ ret.data[1] = Frac(1, 14)

\* The order-k Taylor coefficient of the secular function of one update
\* vector v and one decomposition at one candidate mu:
\* sum_i v_i^2 * (pole_i - mu)^(-(k+1)), plus 1 when k = 0.
RECURSIVE CoefficientSum(_, _, _, _, _)
CoefficientSum(v, Svec, mu, k, i) ==
    IF i > NumEig(Svec) THEN Whole(0)
    ELSE RAdd(RDiv(Squared(v.data[i + 1]),
                   RPowNat(RSub(PoleOf(Squared, Svec, i), mu), k + 1)),
              CoefficientSum(v, Svec, mu, k, i + 1))

Coefficient(v, Svec, mu, k) ==
    RAdd(IF k = 0 THEN Whole(1) ELSE Whole(0), CoefficientSum(v, Svec, mu, k, 0))

IsPole(Svec, mu) ==
    \E i \in 0..NumEig(Svec) : PoleOf(Squared, Svec, i) = mu

\* The output positions that hold the series of a batch element at one of
\* its own candidates: the positions of mu, or, for a batch with one
\* candidate each, the positions <<b, b>>.
OwnPositions ==
    LET mu == args.mu_estimate
    IN IF Rank(args.update_vec) = 2 /\ Rank(mu) = 1
       THEN {<<b, b>> : b \in 0..(mu.shape[1] - 1)}
       ELSE {Unravel(mu.shape, n - 1) : n \in 1..Size(mu.shape)}

MuAt(pos) ==
    LET mu == args.mu_estimate
    IN IF Rank(args.update_vec) = 2 /\ Rank(mu) = 1
       THEN mu.data[pos[1] + 1] ELSE At(mu, pos)

VecAt(pos) ==
    IF Rank(args.update_vec) = 1 THEN args.update_vec
    ELSE Slice0(args.update_vec, pos[1])

\* C10: the trailing axis of the Taylor series has length num_order, and its
\* entry j is the coefficient of order k = min_order + j:
\* sum_i v_i^2 * (pole_i - mu)^(-(k+1)), plus 1 exactly when k = 0.
C10_OrdersAndConstantTerm ==
    Returned("bunch_rational_function_taylor_series") =>
        /\ ~ret.raised
        /\ ret.shape[Rank(ret)] = args.num_order
        /\ \A pos \in OwnPositions : \A j \in 0..(args.num_order - 1) :
            ~IsPole(SvecAt(args.S, pos), MuAt(pos)) =>
                At(ret, pos \o <<j>>) =
                    Coefficient(VecAt(pos), SvecAt(args.S, pos), MuAt(pos),
                                args.min_order + j)

C10_Witness ==
    /\ Returned("bunch_rational_function_taylor_series")
    /\ args.min_order = 1
    /\ args.num_order = 2
    /\ Rank(args.mu_estimate) = 1
    /\ Rank(args.update_vec) = 1
    /\ ~IsPole(args.S, args.mu_estimate.data[1])
    /\ ret.data[1] = Frac(261, 196)

\* The interlacing test case: S = [1, 4], an update vector with no zero
\* component, the order-0 value at every candidate of the grid.
InterlaceCase ==
    /\ Returned("bunch_rational_function_taylor_series")
    /\ args.S = InterlaceS
    /\ args.mu_estimate = Vec(InterlaceGrid)
    /\ args.min_order = 0
    /\ \A i \in 1..3 : args.update_vec.data[i] # Whole(0)

\* The roots of the order-0 value the grid brackets strictly between lo and
\* hi: the pairs of consecutive candidates in the interval at which the value
\* goes from negative to positive. hi = 0 stands for +infinity.
BracketedRoots(lo, hi) ==
    {g \in 1..(Len(InterlaceGrid) - 1) :
        /\ RLess(Whole(lo), InterlaceGrid[g])
        /\ hi = 0 \/ RLess(InterlaceGrid[g + 1], Whole(hi))
        /\ Sign(At(ret, <<g - 1, 0>>)) < 0
        /\ Sign(At(ret, <<g, 0>>)) > 0}

\* C7 (as amended): the value changes sign, and the grid brackets exactly
\* one root, in each of (0, 1), (1, 16) and (16, +infinity): the poles are 0
\* and the squares of S.
C7_InterlacingSquaredPoles ==
    InterlaceCase =>
        /\ Cardinality(BracketedRoots(0, 1)) = 1
        /\ Cardinality(BracketedRoots(1, 16)) = 1
        /\ Cardinality(BracketedRoots(16, 0)) = 1

\* C7 (as claimed): exactly one root in each of (0, 1), (1, 4) and
\* (4, +infinity).
C7_InterlacingPolesOfS ==
    InterlaceCase =>
        /\ Cardinality(BracketedRoots(0, 1)) = 1
        /\ Cardinality(BracketedRoots(1, 4)) = 1
        /\ Cardinality(BracketedRoots(4, 0)) = 1

C7_Witness ==
    /\ InterlaceCase
    /\ args.update_vec = Vec(<<Whole(1), Whole(2), Whole(-1)>>)
    /\ BracketedRoots(1, 4) = {}
    /\ Cardinality(BracketedRoots(4, 16)) = 1

(***************************************************************************)
(* Properties of create_update_append_column.                              *)
(***************************************************************************)
ReturnedUpdate == Returned("create_update_append_column")

\* Whether the call is on a batch, and the size of the batch.
IsBatch(a) == Rank(a.S) = 2

BatchSize(a) == a.S.shape[1]

\* The call on the b-th element of a batch alone.
ElementArgs(a, b) ==
    [a EXCEPT !.eig_column_indices = Slice0(@, b),
              !.S = Slice0(@, b),
              !.eigenvectors = Slice0(@, b),
              !.cov = IF Rank(@) = 3 THEN Slice0(@, b) ELSE @]

RECURSIVE SumSquares(_, _)
SumSquares(xs, i) ==
    IF i > Len(xs) THEN Whole(0)
    ELSE RAdd(Squared(xs[i]), SumSquares(xs, i + 1))

\* The variance of the appended column: column_norm^2 / (num_row - 1).
AppendedVariance(a) ==
    LET cn == a.column_norms.data[a.append_column_index + 1].num
    IN Frac(cn * cn, a.num_row - 1)

\* The rows of a result: one, or one per batch element.
Rows(t) ==
    IF Rank(t) = 1 THEN <<t.data>>
    ELSE [b \in 1..t.shape[1] |-> Slice0(t, b - 1).data]

\* C5: where the radicand is not negative, the returned vector has length
\* N+1 and the squares of its entries sum to
\* column_norms[append_column_index]^2 / (num_row - 1).
C5_VarianceConservation ==
    (ReturnedUpdate /\ ~ret.raised) =>
        LET rad == Radicand(args).data
            rows == Rows(ret)
            variance == AppendedVariance(args)
        IN /\ ret.shape[Rank(ret)] = NumEig(args.S) + 1
           /\ \A b \in 1..Len(rows) :
                ~RLess(rad[b], Whole(0)) => SumSquares(rows[b], 1) = variance

C5_Witness ==
    /\ ReturnedUpdate
    /\ ~ret.raised
    /\ IsBatch(args)
    /\ LET rad == Radicand(args).data
           rows == Rows(ret)
       IN \E b \in 1..BatchSize(args) :
            /\ RLess(Whole(0), rad[b])
            /\ ~IsPlain(rows[b][1])
            /\ SumSquares(rows[b], 1) = Frac(1, 4)

\* The concrete scenario: S = [1, 3], identity eigenvectors,
\* cross-covariances [1/2, 1/5], column norm 1, num_row = 5.
ScenarioCase ==
    /\ ReturnedUpdate
    /\ args = SingleArgs(2, 2, 0, 0, <<1, 5>>)
    /\ args.S = Vec(<<Whole(1), Whole(3)>>)
    /\ args.eigenvectors = Identity(2)
    /\ CovLookup(args) = Vec(<<Frac(1, 2), Frac(1, 5)>>)

ScenarioEntries ==
    /\ ~ret.raised
    /\ ret.shape = <<3>>
    /\ ret.data[2] = Frac(1, 2)
    /\ ret.data[3] = Frac(1, 15)

\* C6 (as amended): in the scenario the entries 1..2 are [1/2, (1/5)/3] and
\* the radicand 1/4 - (1/4 + 1/225) is -1/225, negative, so the residual
\* (entry 0) is NaN.
C6_ScenarioResidualIsNaN ==
    ScenarioCase =>
        /\ ScenarioEntries
        /\ Radicand(args) = Scalar(Frac(-1, 225))
        /\ IsNaN(ret.data[1])

\* C6 (as claimed): in the scenario the entries 1..2 are [1/2, (1/5)/3], the
\* radicand is not negative and the residual is a real, finite number.
C6_ScenarioResidualIsReal ==
    ScenarioCase =>
        /\ ScenarioEntries
        /\ ~RLess(Radicand(args).data[1], Whole(0))
        /\ IsFinite(ret.data[1])

C6_Witness == ScenarioCase /\ ScenarioEntries /\ IsNaN(ret.data[1])

\* The batch elements whose entry of the radicand rad is negative.
Failing(rad) ==
    {b \in 1..Len(rad.data) : RLess(rad.data[b], Whole(0))}

\* C8: when the radicand of a batch element is negative the call raises
\* nothing, the residual of that element is NaN, and every other element's
\* entries are those of a call on that element alone, finite when its own
\* radicand is not negative.
C8_ErrorIsolation ==
    (ReturnedUpdate /\ IsBatch(args)) =>
        LET rad == Radicand(args)
            failing == Failing(rad)
            rows == Rows(ret)
        IN (~rad.raised /\ failing # {}) =>
            /\ ~ret.raised
            /\ \A b \in 1..BatchSize(args) :
                /\ b \in failing => IsNaN(rows[b][1])
                /\ b \notin failing =>
                    /\ rows[b] = create_update_append_column(
                                     ElementArgs(args, b - 1)).data
                    /\ \A i \in 1..Len(rows[b]) : IsFinite(rows[b][i])

C8_Witness ==
    /\ ReturnedUpdate
    /\ IsBatch(args)
    /\ ~ret.raised
    /\ LET failing == Failing(Radicand(args))
           rows == Rows(ret)
       IN /\ Cardinality(failing) = 1
          /\ \E b \in 1..BatchSize(args) :
                b \notin failing /\ ~IsPlain(rows[b][1])

\* C9 (as claimed): the vector projected onto the eigenbasis holds, for
\* every batch element b and position j,
\* cov[b][append_column_index][eig_column_indices[b][j]], also when cov has
\* leading batch dimensions.
C9_CrossCovarianceExtraction ==
    ReturnedUpdate =>
        LET look == CovLookup(args)
            idx == args.eig_column_indices
        IN /\ ~look.raised
           /\ look.shape = idx.shape
           /\ \A n \in 1..Size(idx.shape) :
                LET pos == Unravel(idx.shape, n - 1)
                    covb == IF Rank(args.cov) = 3
                            THEN Slice0(args.cov, pos[1]) ELSE args.cov
                IN look.data[n] =
                     At(covb, <<args.append_column_index, idx.data[n]>>)

\* The call on the b-th element of a batch of the secular function alone.
SecularElement(a, b) ==
    [a EXCEPT !.update_vec = Slice0(@, b), !.S = Slice0(@, b),
              !.mu_estimate = Slice0(@, b)]

\* C3 (as claimed): a call on a batch returns, for every element, the
\* result of the call on that element alone: create_update_append_column,
\* the denominator and the Taylor series.
C3_BatchIndependence ==
    /\ (ReturnedUpdate /\ IsBatch(args)) =>
        /\ ~ret.raised
        /\ \A b \in 0..(BatchSize(args) - 1) :
            Slice0(ret, b) = create_update_append_column(ElementArgs(args, b))
    /\ (Returned("bunch_rational_function_denominator") /\ IsBatch(args)) =>
        /\ ~ret.raised
        /\ \A b \in 0..(BatchSize(args) - 1) :
            LET e == SecularElement(args, b)
            IN Slice0(ret, b) = bunch_rational_function_denominator(
                                    e.update_vec, e.S, e.mu_estimate)
    /\ (Returned("bunch_rational_function_taylor_series") /\ IsBatch(args)) =>
        /\ ~ret.raised
        /\ \A b \in 0..(BatchSize(args) - 1) :
            LET e == SecularElement(args, b)
            IN Slice0(ret, b) = bunch_rational_function_taylor_series(
                   e.update_vec, e.S, e.mu_estimate, e.min_order, e.num_order)

====
